---------------------------- MODULE Spec2Model ----------------------------
(***************************************************************************)
(* A model of release-maker (arqunis/release-maker):                       *)
(*                                                                         *)
(*   - src/src/git.rs: Repository::commits and the Commits iterator, a     *)
(*     git2::Revwalk bounded by start() and end();                         *)
(*   - src/src/release.rs: the OneOrMore codec, Release::get_authors,      *)
(*     Release::get_commits, write_list and generate_msg.                  *)
(*                                                                         *)
(* The three parts are independent; each has its own specification         *)
(* (SpecWalk / SpecWalkLossy, SpecCodec, SpecRender) over its own          *)
(* variables, the other variables staying at their idle values.            *)
(***************************************************************************)
EXTENDS Integers, Sequences, FiniteSets

(***************************************************************************)
(* Bounds of the model.                                                    *)
(***************************************************************************)
\* Number of commits in the repository.
MaxCommits == 3

\* Longest list or JSON array given to the OneOrMore codec.
MaxList == 3

\* Number of Changes in a Release.
MaxChanges == 2

(***************************************************************************)
(* Constants of the program.                                               *)
(***************************************************************************)
\* A commit hash has at least 7 characters; the short reference shows 7.
ShortLen == 7

VARIABLES
    \* ---- the repository read by git.rs (never written by the program)
    parents,     \* commit id -> set of parent commit ids
    ahead,       \* commits whose committer clock ran ahead (clock skew)
    \* ---- struct Commits (git.rs 28-32)
    inner,       \* git2::Revwalk
    end,         \* git2::Oid, 0 is the zero id of Oid::from_str("0")
    pc,          \* "live", or "panicked" after an unwrap() on an Err
    \* ---- history of the calls made on the walker
    op,          \* the last call: "commits", "start", "end" or "next"
    ret,         \* what the last next() returned: a commit id, 0 for None
    yielded,     \* commits returned by next() since commits() or the last start()
    startedAt,   \* the hash given to the last start(), 0 when never called
    nexted,      \* next() was called since commits() or the last start()
    endMoved,    \* end() was called after a next() of the current walk
    truncated,   \* next() has returned the end boundary commit on this walk
    lookupFailed, \* find_commit failed in a next() of the current walk
    \* ---- the OneOrMore codec (release.rs 17-84)
    elem,        \* the element type T: "Author" or "Commit"
    origin,      \* "value": a OneOrMore is serialized; "json": a JSON input is read
    value,       \* the OneOrMore<T> being serialized (empty when origin is "json")
    wire,        \* the JSON value written or read, NoValue when none
    decoded,     \* the outcome of deserialize, NoValue when not run
    \* ---- generate_msg (release.rs 332-369)
    rel,         \* the Release given to generate_msg
    out          \* the outcome of the last generate_msg, NoValue when not run

walkVars == <<parents, ahead, inner, end, pc, op, ret, yielded, startedAt,
              nexted, endMoved, truncated, lookupFailed>>

codecVars == <<elem, origin, value, wire, decoded>>

renderVars == <<rel, out>>

vars == <<walkVars, codecVars, renderVars>>

NoValue == [none |-> TRUE]

(***************************************************************************)
(* The repository: commits 1..MaxCommits, numbered so that a parent has a  *)
(* smaller id than its children (any DAG can be numbered so), one root,    *)
(* at most two parents per commit.  The branch                             *)
(* refs/remotes/origin/<branch> points at the newest commit.               *)
(***************************************************************************)
Oids == 1..MaxCommits

ZeroOid == 0

BranchTip == MaxCommits

Graphs ==
    { g \in [Oids -> SUBSET Oids] :
        \A c \in Oids :
            /\ g[c] \subseteq 1..(c - 1)
            /\ Cardinality(g[c]) <= 2
            /\ (c > 1 => g[c] # {}) }

\* The commit time of a commit.  Times follow the history except for the
\* commits made with a clock that ran ahead; libgit2 orders by this time.
CommitTime(c) == IF c \in ahead THEN c + MaxCommits ELSE c

\* c and every commit reachable from c through parent edges.
Reach(c) ==
    LET anc[d \in Oids] == {d} \cup UNION { anc[p] : p \in parents[d] }
    IN  anc[c]

ReachAll(S) == UNION { Reach(c) : c \in S }

Range(s) == { s[i] : i \in 1..Len(s) }

(***************************************************************************)
(* git2::Revwalk, as libgit2 implements it (revwalk.c).  The walker keeps  *)
(* the pushed commits (user_input), the sorting mode, and once the walk    *)
(* has been prepared either the commits still to emit in topological       *)
(* order (iterator_topo) or the date-ordered list of pending commits       *)
(* (iterator_rand) with the set of commits already seen.                   *)
(*                                                                         *)
(* With GIT_SORT_TOPOLOGICAL the walk emits a commit once all its children *)
(* in the walk are emitted; which of several such commits comes first is   *)
(* left open here.  With GIT_SORT_NONE the walk pops the newest pending    *)
(* commit and adds its unseen parents to the pending list by commit time.  *)
(* Every commit of the repository has author and committer names and       *)
(* emails and a summary in UTF-8, so that the unwrap()s of Commits::next on *)
(* them succeed, and the walk itself meets no error.                       *)
(***************************************************************************)
RevwalkNew ==
    [ sorting       |-> "NONE",
      walking       |-> FALSE,
      did_push      |-> FALSE,
      user_input    |-> <<>>,
      iterator_topo |-> {},
      iterator_rand |-> <<>>,
      seen          |-> {} ]

\* git_revwalk_reset: clears the pushed commits and the walk in progress and
\* leaves the walker "in a blank state (just like at creation)": the sorting
\* mode goes back to GIT_SORT_NONE as well.
RevwalkReset(w) ==
    [ w EXCEPT !.sorting       = "NONE",
               !.walking       = FALSE,
               !.did_push      = FALSE,
               !.user_input    = <<>>,
               !.iterator_topo = {},
               !.iterator_rand = <<>>,
               !.seen          = {} ]

\* git_revwalk_push
RevwalkPush(w, oid) ==
    [ w EXCEPT !.user_input = Append(@, oid), !.did_push = TRUE ]

\* git_revwalk_sorting: "changing the sorting mode resets the walker" when a
\* walk is in progress.
RevwalkSetSorting(w, mode) ==
    [ (IF w.walking THEN RevwalkReset(w) ELSE w) EXCEPT !.sorting = mode ]

\* git_commit_list_insert_by_date: before the first strictly older entry.
InsertByDate(list, c) ==
    LET older == { i \in 1..Len(list) : CommitTime(list[i]) < CommitTime(c) }
        at    == IF older = {} THEN Len(list) + 1
                 ELSE CHOOSE i \in older : \A j \in older : i <= j
    IN  SubSeq(list, 1, at - 1) \o <<c>> \o SubSeq(list, at, Len(list))

RECURSIVE InsertAllByDate(_, _)
InsertAllByDate(list, S) ==
    IF S = {} THEN list
    ELSE LET c == CHOOSE x \in S : \A y \in S : x >= y
         IN  InsertAllByDate(InsertByDate(list, c), S \ {c})

\* prepare_walk, run by the first git_revwalk_next of a walk.
RevwalkPrepare(w) ==
    LET pushed == Range(w.user_input)
    IN  IF w.sorting = "TOPOLOGICAL"
        THEN [ w EXCEPT !.walking = TRUE,
                        !.seen = ReachAll(pushed),
                        !.iterator_topo = ReachAll(pushed) ]
        ELSE [ w EXCEPT !.walking = TRUE,
                        !.seen = pushed,
                        !.iterator_rand = InsertAllByDate(<<>>, pushed) ]

\* The commits sort_in_topological_order may emit next: those of which every
\* child in the walk has been emitted.
TopoReady(w) ==
    { c \in w.iterator_topo :
        \A d \in w.iterator_topo : c \notin parents[d] }

\* git_revwalk_next: the possible outcomes, each [oid, walk]; oid = ZeroOid is
\* GIT_ITEROVER, upon which the walker resets itself.
RevwalkNext(w0) ==
    IF ~w0.walking /\ ~w0.did_push
    THEN { [oid |-> ZeroOid, walk |-> RevwalkReset(w0)] }
    ELSE
      LET w == IF w0.walking THEN w0 ELSE RevwalkPrepare(w0)
      IN  IF w.sorting = "TOPOLOGICAL"
          THEN IF w.iterator_topo = {}
               THEN { [oid |-> ZeroOid, walk |-> RevwalkReset(w)] }
               ELSE { [oid  |-> c,
                       walk |-> [w EXCEPT !.iterator_topo = @ \ {c}]]
                      : c \in TopoReady(w) }
          ELSE IF w.iterator_rand = <<>>
               THEN { [oid |-> ZeroOid, walk |-> RevwalkReset(w)] }
               ELSE LET c    == Head(w.iterator_rand)
                        news == parents[c] \ w.seen
                    IN  { [oid  |-> c,
                           walk |-> [w EXCEPT
                               !.iterator_rand =
                                   InsertAllByDate(Tail(w.iterator_rand), news),
                               !.seen = @ \cup news]] }

(***************************************************************************)
(* git.rs                                                                  *)
(***************************************************************************)
\* Repository::commits: a walker seeded at the branch tip, sorted
\* topologically, with the zero id as end boundary.
RepositoryCommits ==
    RevwalkSetSorting(RevwalkPush(RevwalkNew, BranchTip), "TOPOLOGICAL")

\* Commits::start without the reset: the earlier pushes and sorting stay.
StartWalkNoReset(w, hash) == RevwalkPush(w, hash)

\* The body of Commits::start on the walker.
StartWalk(w, hash) == RevwalkPush(RevwalkReset(w), hash)

\* Commits::next without the truncation at the boundary.
TruncateNever(w, oid, e) == w

\* Commits::next, lines 89-93: the boundary commit truncates the walk.
Truncate(w, oid, e) == IF oid = e THEN RevwalkReset(w) ELSE w

\* The values the variables of a part keep while another part runs.
IdleWalk ==
    /\ parents = [c \in Oids |-> {}]
    /\ ahead = {}
    /\ inner = RevwalkNew
    /\ end = ZeroOid
    /\ pc = "idle"
    /\ op = "idle"
    /\ ret = ZeroOid
    /\ yielded = <<>>
    /\ startedAt = ZeroOid
    /\ nexted = FALSE
    /\ endMoved = FALSE
    /\ truncated = FALSE
    /\ lookupFailed = FALSE

IdleCodec ==
    /\ elem = "idle"
    /\ origin = "idle"
    /\ value = <<>>
    /\ wire = NoValue
    /\ decoded = NoValue

IdleRender ==
    /\ rel = NoValue
    /\ out = NoValue

InitWalk ==
    /\ IdleCodec
    /\ IdleRender
    /\ parents \in Graphs
    /\ ahead \in SUBSET Oids
    /\ inner = RepositoryCommits
    /\ end = ZeroOid
    /\ pc = "live"
    /\ op = "commits"
    /\ ret = ZeroOid
    /\ yielded = <<>>
    /\ startedAt = ZeroOid
    /\ nexted = FALSE
    /\ endMoved = FALSE
    /\ truncated = FALSE
    /\ lookupFailed = FALSE

\* Commits::start(hash) with the id of a commit of the repository.
CommitsStart ==
    /\ pc = "live"
    /\ UNCHANGED <<codecVars, renderVars>>
    /\ \E hash \in Oids :
        /\ inner' = StartWalk(inner, hash)
        /\ startedAt' = hash
    /\ op' = "start"
    /\ yielded' = <<>>
    /\ nexted' = FALSE
    /\ endMoved' = FALSE
    /\ truncated' = FALSE
    /\ lookupFailed' = FALSE
    /\ UNCHANGED <<parents, ahead, end, pc, ret>>

\* Commits::start(hash) with a string that is no hex id, or with an id that
\* names no commit: after the reset, Oid::from_str or Revwalk::push returns an
\* Err and the unwrap() panics.
CommitsStartPanic ==
    /\ pc = "live"
    /\ UNCHANGED <<codecVars, renderVars>>
    /\ pc' = "panicked"
    /\ inner' = RevwalkReset(inner)
    /\ op' = "start"
    /\ UNCHANGED <<parents, ahead, end, ret, yielded, startedAt, nexted,
                   endMoved, truncated, lookupFailed>>

\* Commits::end(hash) with a string that is no hex id: Oid::from_str returns
\* an Err and the unwrap() panics.
CommitsEndPanic ==
    /\ pc = "live"
    /\ UNCHANGED <<codecVars, renderVars>>
    /\ pc' = "panicked"
    /\ op' = "end"
    /\ UNCHANGED <<parents, ahead, inner, end, ret, yielded, startedAt, nexted,
                   endMoved, truncated, lookupFailed>>

\* Commits::end(hash): any well-formed id, of a commit or not.
CommitsEnd ==
    /\ pc = "live"
    /\ UNCHANGED <<codecVars, renderVars>>
    /\ \E hash \in Oids \cup {ZeroOid} : end' = hash
    /\ op' = "end"
    /\ endMoved' = (endMoved \/ nexted)
    /\ UNCHANGED <<parents, ahead, inner, pc, ret, yielded, startedAt, nexted,
                   truncated, lookupFailed>>

\* Commits::next when self.inner.next() gives no id (lines 63-66) or gives
\* one whose commit object is found (lines 68-95).
CommitsNext ==
    /\ pc = "live"
    /\ UNCHANGED <<codecVars, renderVars>>
    /\ \E r \in RevwalkNext(inner) :
        IF r.oid = ZeroOid
        THEN /\ inner' = r.walk
             /\ ret' = ZeroOid
             /\ UNCHANGED <<yielded, truncated>>
        ELSE /\ inner' = Truncate(r.walk, r.oid, end)
             /\ ret' = r.oid
             /\ yielded' = Append(yielded, r.oid)
             /\ truncated' = (truncated \/ r.oid = end)
    /\ op' = "next"
    /\ nexted' = TRUE
    /\ UNCHANGED <<parents, ahead, end, pc, startedAt, endMoved, lookupFailed>>

\* Commits::next when self.repo.find_commit(oid) fails (lines 68-71): the id
\* has been taken from the cursor and None is returned.
CommitsNextLookupErr ==
    /\ pc = "live"
    /\ UNCHANGED <<codecVars, renderVars>>
    /\ \E r \in RevwalkNext(inner) :
        /\ r.oid # ZeroOid
        /\ inner' = r.walk
    /\ ret' = ZeroOid
    /\ op' = "next"
    /\ nexted' = TRUE
    /\ lookupFailed' = TRUE
    /\ UNCHANGED <<parents, ahead, end, pc, yielded, startedAt, endMoved,
                   truncated>>

\* A repository whose commit objects can all be read.
NextWalk ==
    \/ CommitsStart
    \/ CommitsStartPanic
    \/ CommitsEnd
    \/ CommitsEndPanic
    \/ CommitsNext

SpecWalk == InitWalk /\ [][NextWalk]_vars

\* A repository in which the lookup of a commit object may fail.
NextWalkLossy ==
    \/ CommitsStart
    \/ CommitsStartPanic
    \/ CommitsEnd
    \/ CommitsEndPanic
    \/ CommitsNext
    \/ CommitsNextLookupErr

SpecWalkLossy == InitWalk /\ [][NextWalkLossy]_vars

(***************************************************************************)
(* Properties of the walker.                                               *)
(***************************************************************************)
Last(s) == s[Len(s)]

NoDup(s) == \A i, j \in 1..Len(s) : s[i] = s[j] => i = j

IsPrefix(s, t) == Len(s) <= Len(t) /\ SubSeq(t, 1, Len(s)) = s

\* <<i, i-1, ..., j>>
Down(i, j) == [k \in 1..(i - j + 1) |-> i - k + 1]

\* The repository is the linear chain 1 <- 2 <- ... <- MaxCommits.
IsChain == \A c \in Oids : parents[c] = IF c = 1 THEN {} ELSE {c - 1}

\* C1: once next() has returned the commit whose id is the end boundary,
\* every later next() on the walker returns None and yields nothing, as long
\* as start() is not called again (whatever end() is set to afterwards, and
\* also when commit lookups may fail).
C1_NothingAfterBoundary ==
    [][(truncated /\ op' = "next") => (ret' = ZeroOid /\ yielded' = yielded)]_vars

\* A next() after the boundary commit returned None although the boundary
\* commit has parents the walk would have gone on to.
C1_Witness ==
    /\ truncated
    /\ op = "next"
    /\ ret = ZeroOid
    /\ parents[Last(yielded)] # {}

\* C2: on the linear chain, after start(Ci) and with end(Cj), i >= j, set
\* before the first next() of the walk, the walk yields Ci, C(i-1), ..., Cj in
\* that order and nothing else, and next() returns None only after all of
\* them.
C2_InclusiveRange ==
    (IsChain /\ pc = "live" /\ startedAt # ZeroOid /\ ~endMoved
        /\ end \in 1..startedAt)
    => /\ IsPrefix(yielded, Down(startedAt, end))
       /\ ((op = "next" /\ ret = ZeroOid) => yielded = Down(startedAt, end))

\* start(Cn).end(C1) on the chain has yielded Cn, ..., C1 and then None.
C2_Witness ==
    /\ IsChain
    /\ startedAt = MaxCommits
    /\ end = 1
    /\ ~endMoved
    /\ yielded = Down(MaxCommits, 1)
    /\ op = "next"
    /\ ret = ZeroOid

\* C8: after start(h), and as long as no end boundary has been reached, the
\* commits yielded are commits reachable from h, each once, none before one
\* of its descendants, and when next() returns None they are all of them.
C8_FreshTopologicalWalk ==
    (pc = "live" /\ startedAt # ZeroOid /\ ~truncated)
    => /\ Range(yielded) \subseteq Reach(startedAt)
       /\ NoDup(yielded)
       /\ \A i, j \in 1..Len(yielded) :
            i < j => yielded[i] \notin Reach(yielded[j])
       /\ ((op = "next" /\ ret = ZeroOid) => Range(yielded) = Reach(startedAt))

\* What holds of the walk after start(h): it yields the commits reachable
\* from h, each once (in commit time order, see C8).
StartWalkComplete ==
    (pc = "live" /\ startedAt # ZeroOid /\ ~truncated)
    => /\ Range(yielded) \subseteq Reach(startedAt)
       /\ NoDup(yielded)
       /\ ((op = "next" /\ ret = ZeroOid) => Range(yielded) = Reach(startedAt))

\* What holds of the walk that Repository::commits sets up, as long as
\* start() is not called: no commit is yielded before one of its descendants.
TopologicalWithoutStart ==
    (op # "idle" /\ startedAt = ZeroOid)
    => \A i, j \in 1..Len(yielded) : i < j => yielded[i] \notin Reach(yielded[j])

\* C9: a next() in which the commit lookup fails returns None without a
\* panic, and every later next() of the walk returns None as well.
C9_LookupErrEndsSequence ==
    [][ /\ (lookupFailed' /\ ~lookupFailed) => (ret' = ZeroOid /\ pc' = "live")
        /\ (lookupFailed /\ op' = "next") => ret' = ZeroOid ]_vars

\* C10: start(S).end(E) with E reachable from S: when the walk is over, every
\* commit that is S or an ancestor of S and E or a descendant of E has been
\* yielded, none twice, and E was the last one.
C10_RangeComplete ==
    (pc = "live" /\ startedAt # ZeroOid /\ ~endMoved /\ end \in Reach(startedAt))
    => /\ NoDup(yielded)
       /\ ((op = "next" /\ ret = ZeroOid) =>
              /\ { c \in Reach(startedAt) : end \in Reach(c) } \subseteq Range(yielded)
              /\ yielded # <<>>
              /\ Last(yielded) = end)

(***************************************************************************)
(* release.rs: strings, Author, Commit                                     *)
(*                                                                         *)
(* A String is the sequence of its bytes (ASCII here).  An Author or a     *)
(* Commit is a record holding its type and its String; a JSON value is a   *)
(* string [kind "str"], an array [kind "arr"] or something else (number,   *)
(* null, object: [kind "other"]).                                          *)
(***************************************************************************)
\* The string of n bytes ch.
Str(ch, n) == [i \in 1..n |-> ch]

Author(name) == [ty |-> "Author", s |-> name]

Commit(hash) == [ty |-> "Commit", s |-> hash]

\* <Author as TryFrom<String>>::try_from (lines 115-122): never fails.
\* <Commit as TryFrom<String>>::try_from (lines 173-192): fails on a string
\* shorter than 7 bytes.
TryFrom(T, str) ==
    IF T = "Commit" /\ Len(str) < ShortLen
    THEN [tag |-> "err", val |-> str]
    ELSE [tag |-> "ok", val |-> [ty |-> T, s |-> str]]

\* #[derive(Serialize)] on the newtype structs Author and Commit: the JSON
\* string of the wrapped String.
SerializeElem(x) == [kind |-> "str", s |-> x.s]

(***************************************************************************)
(* release.rs: OneOrMore<T>                                                *)
(***************************************************************************)
\* A serializer that writes an array whatever the length.
SerializeAlwaysSeq(v) ==
    [kind |-> "arr", items |-> [i \in 1..Len(v) |-> SerializeElem(v[i])]]

\* impl Serialize for OneOrMore<T> (lines 19-36).
Serialize(v) ==
    IF Len(v) = 1
    THEN SerializeElem(v[1])
    ELSE [kind |-> "arr", items |-> [i \in 1..Len(v) |-> SerializeElem(v[i])]]

\* Visitor::visit_str (lines 55-62).
VisitStr(T, str) ==
    LET item == TryFrom(T, str)
    IN  IF item.tag = "err"
        THEN [tag |-> "err", msg |-> "failed to parse from string"]
        ELSE [tag |-> "ok", val |-> <<item.val>>]

\* The loop of Visitor::visit_seq (lines 67-74) over the elements still to
\* read, v being the items pushed so far.
RECURSIVE VisitSeqLoop(_, _, _)
VisitSeqLoop(T, items, v) ==
    IF items = <<>> THEN [tag |-> "ok", val |-> v]
    ELSE IF Head(items).kind # "str"
         THEN [tag |-> "err", msg |-> "invalid type"]
         ELSE LET item == TryFrom(T, Head(items).s)
              IN  IF item.tag = "err"
                  THEN [tag |-> "err", msg |-> "failed to parse from string"]
                  ELSE VisitSeqLoop(T, Tail(items), Append(v, item.val))

\* Visitor::visit_seq (lines 64-79): the loop, then the assertion.
VisitSeq(T, items) ==
    LET r == VisitSeqLoop(T, items, <<>>)
    IN  IF r.tag = "ok" /\ ~(Len(r.val) >= 1)
        THEN [tag |-> "panic", msg |-> "expected at least one string"]
        ELSE r

\* impl Deserialize for OneOrMore<T> (lines 38-84): deserialize_any calls
\* visit_str on a string, visit_seq on an array and the Visitor's default
\* methods, which reject the value, on anything else.
Deserialize(T, json) ==
    IF json.kind = "str" THEN VisitStr(T, json.s)
    ELSE IF json.kind = "arr" THEN VisitSeq(T, json.items)
    ELSE [tag |-> "err", msg |-> "invalid type"]

\* Sequences over S of length lo..hi.
SeqsOf(S, lo, hi) == UNION { [1..n -> S] : n \in lo..hi }

\* Strings of 6 and of 7 bytes.
StrPool == { Str(ch, n) : ch \in {97, 98}, n \in {ShortLen - 1, ShortLen} }

\* The values of type T that can be built: Commit::new asserts the length.
Elems(T) ==
    { [ty |-> T, s |-> str] : str \in { x \in StrPool : TryFrom(T, x).tag = "ok" } }

JsonScalars == { [kind |-> "str", s |-> str] : str \in StrPool } \cup { [kind |-> "other"] }

JsonInputs ==
    JsonScalars \cup { [kind |-> "arr", items |-> q] : q \in SeqsOf(JsonScalars, 0, MaxList) }

\* Either a OneOrMore value to serialize (the Vec is a public field and may
\* hold any number of elements), or a JSON value read from the input.
InitCodec ==
    /\ IdleWalk
    /\ IdleRender
    /\ elem \in {"Author", "Commit"}
    /\ decoded = NoValue
    /\ \/ /\ origin = "value"
          /\ value \in SeqsOf(Elems(elem), 0, MaxList)
          /\ wire = NoValue
       \/ /\ origin = "json"
          /\ value = <<>>
          /\ wire \in JsonInputs

\* OneOrMore::serialize
CodecSerialize ==
    /\ origin = "value"
    /\ wire = NoValue
    /\ wire' = Serialize(value)
    /\ UNCHANGED <<elem, origin, value, decoded>>
    /\ UNCHANGED <<walkVars, renderVars>>

\* OneOrMore::deserialize
CodecDeserialize ==
    /\ wire # NoValue
    /\ decoded = NoValue
    /\ decoded' = Deserialize(elem, wire)
    /\ UNCHANGED <<elem, origin, value, wire>>
    /\ UNCHANGED <<walkVars, renderVars>>

NextCodec ==
    \/ CodecSerialize
    \/ CodecDeserialize

SpecCodec == InitCodec /\ [][NextCodec]_vars

(***************************************************************************)
(* Properties of the codec.                                                *)
(***************************************************************************)
\* C5: deserializing an empty array fails with an error returned to the
\* caller, and no deserialization succeeds with an empty list.
C5_EmptyArrayIsDecodeError ==
    decoded # NoValue =>
        /\ (wire = [kind |-> "arr", items |-> <<>>] => decoded.tag = "err")
        /\ (decoded.tag = "ok" => Len(decoded.val) >= 1)

\* C6: for a non-empty list, serialize writes a bare string when the list
\* has one element and an array of as many strings as elements otherwise,
\* and deserialize gives the list back, same elements in the same order.
C6_RoundTrip ==
    (origin = "value" /\ Len(value) >= 1) =>
        /\ wire # NoValue =>
              IF Len(value) = 1
              THEN wire.kind = "str"
              ELSE wire.kind = "arr" /\ Len(wire.items) = Len(value)
        /\ decoded # NoValue => (decoded.tag = "ok" /\ decoded.val = value)

\* A list of several distinct commits went through both directions.
\* What holds of C5: no deserialization succeeds with an empty list.
C5_NeverEmpty ==
    (decoded # NoValue /\ decoded.tag = "ok") => Len(decoded.val) >= 1

C6_Witness ==
    /\ origin = "value"
    /\ elem = "Commit"
    /\ Len(value) >= 2
    /\ value[1] # value[2]
    /\ decoded # NoValue
    /\ decoded.tag = "ok"

(***************************************************************************)
(* release.rs: Release, write_list, generate_msg                           *)
(*                                                                         *)
(* The text written to the sink is the sequence of its lines; a line is    *)
(* the format string that wrote it with the Strings put in its holes.      *)
(***************************************************************************)
Line(fmt, args) == [fmt |-> fmt, args |-> args]

Blank == Line("", <<>>)

\* str::to_lowercase on ASCII: A-Z become a-z.
ToLowercase(str) ==
    [i \in 1..Len(str) |-> IF str[i] \in 65..90 THEN str[i] + 32 ELSE str[i]]

\* a < b in the order of String (Ord for str: bytewise lexicographic).
LexLess(a, b) ==
    \E k \in 1..Len(b) :
        /\ \A i \in 1..(k - 1) : i <= Len(a) /\ a[i] = b[i]
        /\ (k > Len(a) \/ a[k] < b[k])

\* The comparison given to sort_by in generate_msg (line 337).
AuthorLess(a, b) == LexLess(ToLowercase(a.s), ToLowercase(b.s))

\* slice::sort_by is a stable sort: an element goes before the first element
\* that compares greater, behind those that compare equal.
RECURSIVE SortAuthors(_)
SortAuthors(v) ==
    IF v = <<>> THEN <<>>
    ELSE LET x      == v[Len(v)]
             sorted == SortAuthors(SubSeq(v, 1, Len(v) - 1))
             gt     == { i \in 1..Len(sorted) : AuthorLess(x, sorted[i]) }
             at     == IF gt = {} THEN Len(sorted) + 1
                       ELSE CHOOSE i \in gt : \A j \in gt : i <= j
         IN  SubSeq(sorted, 1, at - 1) \o <<x>> \o SubSeq(sorted, at, Len(sorted))

\* impl Display for Author (lines 107-113): "[@name]".
DisplayAuthor(a) == <<91, 64>> \o a.s \o <<93>>

\* impl Display for Commit (lines 194-201): "[c:" + the first 7 bytes + "]".
DisplayCommit(c) == <<91, 99, 58>> \o SubSeq(c.s, 1, ShortLen) \o <<93>>

\* Release::iter (lines 255-261).
Iter(r) == r.added \o r.changed \o r.fixed \o r.removed

\* Iterator::flat_map over the changes: the concatenation of their lists.
RECURSIVE Flatten(_)
Flatten(lists) ==
    IF lists = <<>> THEN <<>> ELSE Head(lists) \o Flatten(Tail(lists))

\* The author references of the changes, in order (the closure of line 266).
AuthorRefs(changes) == Flatten([i \in 1..Len(changes) |-> changes[i].authors])

\* The commit references of the changes, in order (the closure of line 275).
CommitRefs(changes) == Flatten([i \in 1..Len(changes) |-> changes[i].commits])

\* The orders in which a HashSet holding S may be iterated.
HashOrders(S) ==
    { v \in [1..Cardinality(S) -> S] : \A i, j \in 1..Cardinality(S) : v[i] = v[j] => i = j }

\* get_authors collecting into a Vec: every reference, in the order met.
GetAuthorsNoDedup(r) == { AuthorRefs(Iter(r)) }

\* Release::get_authors (lines 264-270): the Vecs it may return.  The authors
\* are collected into a HashSet<Author> (RandomState) and read back in the
\* set's iteration order.
GetAuthors(r) == HashOrders(Range(AuthorRefs(Iter(r))))

\* get_commits dropping the hashes already met.
RECURSIVE Dedup(_)
Dedup(v) ==
    IF v = <<>> THEN <<>>
    ELSE LET d == Dedup(SubSeq(v, 1, Len(v) - 1))
         IN  IF v[Len(v)] \in Range(d) THEN d ELSE Append(d, v[Len(v)])

GetCommitsDedup(r) == Dedup(CommitRefs(Iter(r)))

\* Release::get_commits (lines 273-277).
GetCommits(r) == CommitRefs(Iter(r))

\* write_separated (lines 280-299) with " " as separator, shown being the
\* Display output of each element.
RECURSIVE WriteSeparated(_)
WriteSeparated(shown) ==
    IF shown = <<>> THEN <<>>
    ELSE IF Len(shown) = 1 THEN shown[1]
    ELSE Head(shown) \o <<32>> \o WriteSeparated(Tail(shown))

\* The loop of write_list (lines 308-320) over the changes still to write;
\* the assertion on the category panics.
RECURSIVE WriteChanges(_, _)
WriteChanges(text, changes) ==
    IF changes = <<>> THEN [status |-> "ok", text |-> text]
    ELSE LET change == Head(changes)
         IN  IF change.category = <<>>
             THEN [status |-> "panic", text |-> text]
             ELSE WriteChanges(
                      Append(text, Line("- [{}] {} ({}) {}",
                          << change.category, change.name,
                             WriteSeparated([i \in 1..Len(change.authors) |->
                                 DisplayAuthor(change.authors[i])]),
                             WriteSeparated([i \in 1..Len(change.commits) |->
                                 DisplayCommit(change.commits[i])]) >>)),
                      Tail(changes))

\* write_list (lines 301-325) appending to the sink sk unless an earlier
\* write_list panicked.
WriteList(sk, header, changes) ==
    IF sk.status # "ok" \/ changes = <<>> THEN sk
    ELSE LET w == WriteChanges(sk.text \o <<Line(header, <<>>), Blank>>, changes)
         IN  IF w.status = "ok"
             THEN [status |-> "ok", text |-> Append(w.text, Blank)]
             ELSE w

\* generate_msg (lines 332-369), hashOrder being what get_authors returned.
GenerateMsg(r, hashOrder) ==
    LET authors == SortAuthors(hashOrder)
        commits == GetCommits(r)
        thanks  == << Line("Thanks to the following for their contributions:", <<>>),
                      Blank >>
                   \o [i \in 1..Len(authors) |-> Line("- {}", <<DisplayAuthor(authors[i])>>)]
                   \o <<Blank>>
        lists   == WriteList(WriteList(WriteList(WriteList(
                       [status |-> "ok", text |-> thanks],
                       "### Added", r.added),
                       "### Changed", r.changed),
                       "### Fixed", r.fixed),
                       "### Removed", r.removed)
    IN  IF lists.status # "ok" THEN lists
        ELSE [ status |-> "ok",
               text   |-> lists.text
                   \o [i \in 1..Len(authors) |->
                         Line("{}: https://github.com/{}",
                              <<DisplayAuthor(authors[i]), authors[i].s>>)]
                   \o <<Blank>>
                   \o [i \in 1..Len(commits) |->
                         Line("{}: {}/commit/{}",
                              <<DisplayCommit(commits[i]), r.repo_url, commits[i].s>>)] ]

\* The Releases rendered: author names "a", "B", "b", the hashes "aaaaaaa"
\* and "bbbbbbbb", one or two (different) authors and commits per Change.  A
\* Change is the plain one (category "f", author "a", commit "aaaaaaa") with
\* other authors, or with other commits, or with the empty category.  What
\* several Changes reference may be the same.
NamePool == { <<97>>, <<66>>, <<98>> }

HashPool == { Str(97, ShortLen), Str(98, ShortLen + 1) }

Change(category, name, authors, commits) ==
    [category |-> category, name |-> name, authors |-> authors, commits |-> commits]

OneOrTwo(S) == { v \in SeqsOf(S, 1, 2) : Len(v) = 2 => v[1] # v[2] }

Changes ==
    { Change(<<102>>, <<110>>, as, <<Commit(Str(97, ShortLen))>>) :
        as \in OneOrTwo({ Author(n) : n \in NamePool }) }
    \cup
    { Change(<<102>>, <<110>>, <<Author(<<97>>)>>, cs) :
        cs \in OneOrTwo({ Commit(h) : h \in HashPool }) }
    \cup
    { Change(<<>>, <<110>>, <<Author(<<97>>)>>, <<Commit(Str(97, ShortLen))>>) }

\* The changes cs given to the four lists, sec[i] being the list of cs[i].
Release(cs, sec) ==
    LET part(k) == SelectSeq([i \in 1..Len(cs) |-> [c |-> cs[i], k |-> sec[i]]],
                             LAMBDA e : e.k = k)
        list(k) == [i \in 1..Len(part(k)) |-> part(k)[i].c]
    IN  [ repo_url |-> <<117>>,
          added    |-> list(1),
          changed  |-> list(2),
          fixed    |-> list(3),
          removed  |-> list(4) ]

Sections(n) ==
    { sec \in [1..n -> 1..4] : \A i, j \in 1..n : i < j => sec[i] <= sec[j] }

InitRender ==
    /\ IdleWalk
    /\ IdleCodec
    /\ \E cs \in SeqsOf(Changes, 0, MaxChanges) :
         \E sec \in Sections(Len(cs)) :
            rel = Release(cs, sec)
    /\ out = NoValue

\* generate(): one call of generate_msg on the Release, with a fresh String
\* as sink.
Generate ==
    /\ rel # NoValue
    /\ \E hashOrder \in GetAuthors(rel) : out' = GenerateMsg(rel, hashOrder)
    /\ UNCHANGED rel
    /\ UNCHANGED <<walkVars, codecVars>>

NextRender == Generate

SpecRender == InitRender /\ [][NextRender]_vars

(***************************************************************************)
(* Properties of generate_msg.                                             *)
(***************************************************************************)
\* The names of the authors referenced by the changes of the Release.
AuthorNames(r) ==
    UNION { { c.authors[i].s : i \in 1..Len(c.authors) } : c \in Range(Iter(r)) }

\* The thanks section: the lines after the header and its blank line, up to
\* the next blank line.
ThanksBullets(text) ==
    LET blanks == { i \in 3..Len(text) : text[i] = Blank }
        stop   == CHOOSE i \in blanks : \A j \in blanks : i <= j
    IN  SubSeq(text, 3, stop - 1)

\* The name shown by a bullet "- [@name]".
BulletName(line) == SubSeq(line.args[1], 3, Len(line.args[1]) - 1)

\* The commit link lines of a text.
CommitLinks(text) == SelectSeq(text, LAMBDA l : l.fmt = "{}: {}/commit/{}")

RECURSIVE SumLen(_)
SumLen(lists) == IF lists = <<>> THEN 0 ELSE Len(Head(lists)) + SumLen(Tail(lists))

\* C3: generate_msg is deterministic: a second rendering of the same Release
\* writes the same text as the first.
C3_Deterministic ==
    [][(out # NoValue /\ rel' = rel) => out' = out]_vars

\* C4: the thanks section has one bullet "- [@name]" per distinct author
\* name of the Release, none twice, in ascending order of the lowercased
\* name.
C4_ThanksSection ==
    out # NoValue =>
        LET bullets == ThanksBullets(out.text)
            names   == [i \in 1..Len(bullets) |-> BulletName(bullets[i])]
        IN  /\ \A i \in 1..Len(bullets) :
                  /\ bullets[i].fmt = "- {}"
                  /\ bullets[i].args = << <<91, 64>> \o names[i] \o <<93>> >>
            /\ Range(names) = AuthorNames(rel)
            /\ NoDup(names)
            /\ \A i, j \in 1..Len(names) :
                  i < j => ~LexLess(ToLowercase(names[j]), ToLowercase(names[i]))

\* An author referenced twice has one bullet, and "a" comes before "B"
\* although the byte 'B' is smaller than 'a'.
C4_Witness ==
    /\ out # NoValue
    /\ Len(AuthorRefs(Iter(rel))) > Cardinality(AuthorNames(rel))
    /\ \E i \in 1..(Len(ThanksBullets(out.text)) - 1) :
          /\ BulletName(ThanksBullets(out.text)[i]) = <<97>>
          /\ BulletName(ThanksBullets(out.text)[i + 1]) = <<66>>

\* Every Change of the Release has a category, as the data model of a Change
\* requires and write_list asserts.
WellFormed(r) == \A i \in 1..Len(Iter(r)) : Iter(r)[i].category # <<>>

\* C7: for every Release (of Changes that have a category), generate_msg
\* returns having written one commit link line per commit reference,
\* duplicates included, in the order added, changed, fixed, removed, then
\* Change order, then the order of each Change's commits; their number is the
\* sum of the lengths of the commits lists.
C7_CommitLinks ==
    (out # NoValue /\ WellFormed(rel)) =>
        LET links == CommitLinks(out.text)
            lists == [i \in 1..Len(Iter(rel)) |-> Iter(rel)[i].commits]
            refs  == Flatten(lists)
        IN  /\ out.status = "ok"
            /\ Len(links) = SumLen(lists)
            /\ \A k \in 1..Len(links) :
                  links[k].args =
                      << <<91, 99, 58>> \o SubSeq(refs[k].s, 1, ShortLen) \o <<93>>,
                         rel.repo_url, refs[k].s >>

\* A rendering in which the same hash is referenced by two Changes of
\* different lists and has two link lines.
C7_Witness ==
    /\ out # NoValue
    /\ out.status = "ok"
    /\ rel.added # <<>>
    /\ rel.fixed # <<>>
    /\ rel.added[1].commits[1] = rel.fixed[1].commits[1]
    /\ Len(rel.added[1].commits) = 2
    /\ Len(CommitLinks(out.text)) = 3

=============================================================================
